---- MODULE Spec2Model ----
(***************************************************************************)
(* Model of the InterviewBot server: the in-memory store (MemStorage), the *)
(* HTTP handlers of server/routes.ts and the WebSocket relay of            *)
(* server/services/vapi.ts.                                                *)
(*                                                                         *)
(* A handler runs atomically between two calls of the external language    *)
(* model: the store's async methods resolve in microtasks, so no other     *)
(* request is served between them; a call of openaiService is network I/O  *)
(* and other requests are served while it is pending.  An in-flight        *)
(* request is therefore a record holding the handler's local variables     *)
(* and the call it waits for.                                              *)
(***************************************************************************)
EXTENDS Integers, Sequences, FiniteSets, Bags, TLC

VARIABLES
    interviews,          \* MemStorage.interviews: id -> Interview
    sessions,            \* MemStorage.sessions: id -> InterviewSession
    currentInterviewId,  \* MemStorage.currentInterviewId
    currentSessionId,    \* MemStorage.currentSessionId
    inflight,            \* bag of handlers waiting for an external-model call
    resp,                \* the HTTP response sent last
    now,                 \* Date.now(), in milliseconds
    activeConnections,   \* VapiService.activeConnections (ids of the map)
    wsState,             \* readyState of every WebSocket ever accepted
    wsOut,               \* messages the server sent on each WebSocket
    wsLast,              \* the browser message handled last
    client,              \* the browser's InterviewSession component
    speech,              \* a useSpeech hook and its SpeechRecognition object
    synth                \* a useSpeechSynthesis hook and window.speechSynthesis

vars == <<interviews, sessions, currentInterviewId, currentSessionId, inflight,
          resp, now, activeConnections, wsState, wsOut, wsLast, client, speech,
          synth>>

storeVars == <<interviews, sessions, currentInterviewId, currentSessionId>>
wsVars == <<activeConnections, wsState, wsOut, wsLast>>
hookVars == <<speech, synth>>

----------------------------------------------------------------------------
(* Values *)

\* null of an optional column; Some(v) is a value that is set
Null == <<>>
Some(v) == <<v>>

\* JSON body members that are absent, or present but not a string
Undefined == "#undefined"
NonString == "#number"
IsString(v) == v \notin {Undefined, NonString}

\* bounds of the model
MaxSessions == 2
MaxResponses == 2
MaxInFlight == 2
OverlapResponses == 2
StoreInterviews == 2
StoreSessions == 2
StatsInterviews == 2
StatsSessions == 2
InputResponses == 1
LoopSlack == 1
SessionSessions == 2
SessionResponses == 1
ClientSessions == 1
TimedResponses == 2
MaxTicks == 2
TickMs == 40000
RaceInFlight == 2
RaceResponses == 3
MaxConns == 2
MaxRelays == 1
UiInFlight == 2
UiResponses == 2
SubmitInFlight == 2
SpeechFinals == 2
SynthCalls == 2

\* program constants
MaxQuestions == 10
DefaultDuration == 300
MsPerSecond == 1000
QuestionLeadMs == 30000

Min(S) == CHOOSE x \in S : \A y \in S : x <= y

RECURSIVE SumSeq(_)
SumSeq(s) == IF s = <<>> THEN 0 ELSE Head(s) + SumSeq(Tail(s))

RECURSIVE SetToSeq(_)
SetToSeq(S) == IF S = {} THEN <<>> ELSE <<Min(S)>> \o SetToSeq(S \ {Min(S)})


----------------------------------------------------------------------------
(* shared/schema.ts *)

\* insertInterviewSchema.parse: the four notNull text columns are required
\* strings, status (which has a default) is an optional string
ValidInsert(body) ==
    /\ IsString(body.candidateName)
    /\ IsString(body.language)
    /\ IsString(body.interviewType)
    /\ IsString(body.experienceLevel)
    /\ body.status # NonString

----------------------------------------------------------------------------
(* server/storage.ts: MemStorage *)

NewInterview(id, body) ==
    [id |-> id,
     language |-> body.language,
     status |-> IF body.status = Undefined THEN "pending" ELSE body.status,
     startTime |-> Null, endTime |-> Null, duration |-> Null, score |-> Null,
     transcript |-> Null, evaluation |-> Null]

\* mutant: the counter is read but not advanced
NextIdStuck(counter) == counter

\* this.currentInterviewId++, this.currentSessionId++
NextId(counter) == counter + 1

\* Map.set(id, value)
Put(map, id, value) ==
    [k \in DOMAIN map \cup {id} |-> IF k = id THEN value ELSE map[k]]

getInterview(id) == IF id \in DOMAIN interviews THEN Some(interviews[id]) ELSE Null

\* { ...interview, ...updates }
updateInterview(id, updates) ==
    Put(interviews, id,
        [f \in DOMAIN interviews[id] |->
            IF f \in DOMAIN updates THEN updates[f] ELSE interviews[id][f]])

NewSession(id, interviewId, data) ==
    [id |-> id, interviewId |-> interviewId, sessionData |-> data, isActive |-> TRUE]

\* Array.from(sessions.values()).find(...): the first match in insertion order,
\* 0 when there is none
getSessionByInterviewId(interviewId) ==
    LET found == {s \in DOMAIN sessions :
                    sessions[s].interviewId = interviewId /\ sessions[s].isActive}
    IN IF found = {} THEN 0 ELSE Min(found)

updateSession(map, id, updates) ==
    Put(map, id,
        [f \in DOMAIN map[id] |->
            IF f \in DOMAIN updates THEN updates[f] ELSE map[id][f]])

----------------------------------------------------------------------------
(* server/routes.ts: requests, responses and the external model *)

\* openaiService.generateInterviewQuestion: the question the external model
\* returns for context.currentQuestionIndex (questions are numbered; 0 is the
\* empty string)
GenerateQuestion(index) == index + 1
EmptyQuestion == 0

\* the local variables of a handler that waits for the external model
\* (pc names the call: first, eval, next or final): the interview id, the
\* session found, the question and answer kept, the interview's startTime and
\* the transcript built (end), the evaluation's score and the response pushed,
\* and the question index the next question was asked for
Request(kind, pc, id, sid) ==
    [kind |-> kind, pc |-> pc, id |-> id, sid |-> sid, question |-> EmptyQuestion,
     answer |-> Undefined, startTime |-> Null, transcript |-> <<>>,
     score |-> 0, entry |-> Null, asked |-> 0]

\* res.status(status).json(body); input, failed, delta and entry record what
\* the handler was given and did: the request body member it read, whether an
\* external call threw, by how much it changed the stored questionIndex and
\* the response entry it pushed
Response(kind, status, id, sid, input, failed, delta, entry, body) ==
    [kind |-> kind, status |-> status, id |-> id, sid |-> sid, input |-> input,
     failed |-> failed, delta |-> delta, entry |-> entry, body |-> body]

NoResponse == Response("none", 0, 0, 0, Undefined, FALSE, 0, Null, Null)

StatusOk == 200
StatusBadRequest == 400
StatusNotFound == 404
StatusError == 500

Waiting(P) == BagCardinality(inflight) < P.maxInFlight
Pending(kind, pc) == {r \in BagToSet(inflight) : r.kind = kind /\ r.pc = pc}
CountOf(S) == BagCardinality([r \in S |-> inflight[r]])
Settle(r) == inflight (-) SetToBag({r})
Await(r) == inflight (+) SetToBag({r})

----------------------------------------------------------------------------
(* POST /api/interviews *)

CreateOk(body) ==
    LET id == currentInterviewId
        interview == NewInterview(id, body)
    IN /\ currentInterviewId' = NextId(currentInterviewId)
       /\ interviews' = Put(interviews, id, interview)
       /\ resp' = Response("create", StatusOk, id, 0, body, FALSE, 0, Null, Null)
       /\ UNCHANGED <<sessions, currentSessionId>>

CreateInvalid(body) ==
    /\ resp' = Response("create", StatusBadRequest, 0, 0, body, FALSE, 0, Null, Null)
    /\ UNCHANGED storeVars

CreateInterview(P, body) ==
    /\ IF ValidInsert(body)
         THEN Cardinality(DOMAIN interviews) < P.maxInterviews /\ CreateOk(body)
         ELSE CreateInvalid(body)
    /\ UNCHANGED <<inflight, now, wsVars, client, hookVars>>

----------------------------------------------------------------------------
(* POST /api/interviews/:id/start *)

\* lines 67-82: look the interview up, ask for the first question
StartRecv(P, id) ==
    /\ Waiting(P)
    /\ IF getInterview(id) = Null
         THEN /\ resp' = Response("start", StatusNotFound, id, 0, Undefined,
                                  FALSE, 0, Null, Null)
              /\ UNCHANGED inflight
         ELSE /\ currentSessionId
                   + CountOf(Pending("start", "first")) <= P.maxSessions
              /\ inflight' = Await(Request("start", "first", id, 0))
              /\ UNCHANGED resp
    /\ UNCHANGED <<storeVars, now, wsVars, client, hookVars>>

InitialSessionData(question) ==
    [currentQuestion |-> question, questionIndex |-> 1, responses |-> <<>>]

\* lines 84-131: the first question arrived
StartOk(r, question) ==
    LET sid == currentSessionId
        session == NewSession(sid, r.id, InitialSessionData(question))
    IN /\ interviews' = updateInterview(r.id,
                            [status |-> "active", startTime |-> Some(now)])
       /\ currentSessionId' = NextId(currentSessionId)
       /\ sessions' = Put(sessions, sid, session)
       /\ resp' = Response("start", StatusOk, r.id, sid, Undefined, FALSE, 0,
                           Null, [firstQuestion |-> question])
       /\ UNCHANGED currentInterviewId

\* mutant: the interview is marked active before the question is generated
StartFailStarted(r) ==
    /\ resp' = Response("start", StatusError, r.id, 0, Undefined, TRUE, 0, Null, Null)
    /\ interviews' = updateInterview(r.id,
                         [status |-> "active", startTime |-> Some(now)])
    /\ UNCHANGED <<sessions, currentInterviewId, currentSessionId>>

\* lines 132-135: generateInterviewQuestion threw
StartFail(r) ==
    /\ resp' = Response("start", StatusError, r.id, 0, Undefined, TRUE, 0, Null, Null)
    /\ UNCHANGED storeVars

StartDone(P, r, ok) ==
    /\ r \in Pending("start", "first")
    /\ inflight' = Settle(r)
    /\ IF ok THEN StartOk(r, GenerateQuestion(0)) ELSE StartFail(r)
    /\ UNCHANGED <<now, wsVars, client, hookVars>>

----------------------------------------------------------------------------
(* POST /api/interviews/:id/respond *)

\* respond handlers of session sid that have not pushed their response yet
Unpushed(sid) == {r \in Pending("respond", "eval") : r.sid = sid}

\* lines 221-247: read the answer, look up interview and active session, keep
\* the session's current question, ask for the answer's evaluation
RespondRequest(P, id, answer) ==
    LET sid == getSessionByInterviewId(id)
    IN /\ Waiting(P)
       /\ IF getInterview(id) = Null \/ sid = 0
            THEN /\ resp' = Response("respond", StatusNotFound, id, 0, answer,
                                     FALSE, 0, Null, Null)
                 /\ UNCHANGED inflight
            ELSE /\ Len(sessions[sid].sessionData.responses)
                      + CountOf(Unpushed(sid)) < P.maxResponses
                 /\ inflight' = Await(
                        [Request("respond", "eval", id, sid) EXCEPT
                            !.question = sessions[sid].sessionData.currentQuestion,
                            !.answer = answer])
                 /\ UNCHANGED resp
       /\ UNCHANGED <<storeVars, now, wsVars, hookVars>>

\* a respond request sent by anything but the modelled browser component
RespondRecv(P, id, answer) == RespondRequest(P, id, answer) /\ UNCHANGED <<client, hookVars>>

\* mutant: the question is read from the session after the evaluation
NewResponseStale(r, score) ==
    [question |-> sessions[r.sid].sessionData.currentQuestion, answer |-> r.answer,
     score |-> score, timestamp |-> now]

\* lines 250-255
NewResponse(r, score) ==
    [question |-> r.question, answer |-> r.answer, score |-> score, timestamp |-> now]

\* mutant: the handler writes back a copy of the list it read, losing a push
\* made since
PushOver(responses, entry) ==
    IF responses = <<>> THEN <<entry>>
    ELSE [responses EXCEPT ![Len(responses)] = entry]

\* line 257: sessionData.responses.push(newResponse)
Push(responses, entry) == Append(responses, entry)

\* line 258: sessionData.questionIndex += 1
Increment(questionIndex) == questionIndex + 1

\* mutant: completion is reported one question early
IsCompleteEarly(questionIndex) == questionIndex >= MaxQuestions

\* lines 262 and 283
AskNext(questionIndex) == questionIndex <= MaxQuestions
IsComplete(questionIndex) == questionIndex > MaxQuestions

\* lines 274-284: store the next question, answer the request.  The handler
\* holds the session's own sessionData object, so what it stores and reports
\* is that object as it is now.
RespondFinish(map, r, score, entry, nextQuestion) ==
    LET data == [map[r.sid].sessionData EXCEPT !.currentQuestion = nextQuestion]
    IN /\ sessions' = updateSession(map, r.sid, [sessionData |-> data])
       /\ resp' = Response("respond", StatusOk, r.id, r.sid, r.answer, FALSE, 1,
                           Some(entry),
                           [evaluation |-> score,
                            nextQuestion |-> nextQuestion,
                            questionIndex |-> data.questionIndex,
                            isComplete |-> IsComplete(data.questionIndex)])

\* lines 249-272: the evaluation arrived; push the response, count it, and ask
\* for the next question unless the count passed MaxQuestions
RespondScored(r, score) ==
    LET data == sessions[r.sid].sessionData
        entry == NewResponse(r, score)
        pushed == [data EXCEPT !.responses = Push(@, entry),
                               !.questionIndex = Increment(@)]
        map == [sessions EXCEPT ![r.sid].sessionData = pushed]
    IN IF AskNext(pushed.questionIndex)
         THEN /\ sessions' = map
              /\ inflight' = Await([r EXCEPT !.pc = "next", !.score = score,
                                              !.entry = Some(entry),
                                              !.asked = pushed.questionIndex])
                             (-) SetToBag({r})
              /\ UNCHANGED resp
         ELSE /\ RespondFinish(map, r, score, entry, EmptyQuestion)
              /\ inflight' = Settle(r)

\* mutant: the catch block answers without status(500)
RespondFailSwallowed(r, delta) ==
    /\ resp' = Response("respond", StatusOk, r.id, r.sid, r.answer, TRUE, delta,
                        r.entry, Null)
    /\ inflight' = Settle(r)
    /\ UNCHANGED sessions

\* lines 285-288: an external call threw; delta tells whether the handler had
\* already counted its response
RespondFail(r, delta) ==
    /\ resp' = Response("respond", StatusError, r.id, r.sid, r.answer, TRUE, delta,
                        r.entry, Null)
    /\ inflight' = Settle(r)
    /\ UNCHANGED sessions

RespondEval(P, r, ok, score) ==
    /\ r \in Pending("respond", "eval")
    /\ IF ok THEN RespondScored(r, score) ELSE RespondFail(r, 0)
    /\ UNCHANGED <<interviews, currentInterviewId, currentSessionId, now, wsVars, client, hookVars>>

RespondNext(P, r, ok) ==
    /\ r \in Pending("respond", "next")
    /\ IF ok THEN /\ RespondFinish(sessions, r, r.score, r.entry[1],
                                   GenerateQuestion(r.asked))
                  /\ inflight' = Settle(r)
             ELSE RespondFail(r, 1)
    /\ UNCHANGED <<interviews, currentInterviewId, currentSessionId, now, wsVars, client, hookVars>>

----------------------------------------------------------------------------
(* POST /api/interviews/:id/end *)

\* mutant: the answer is listed before its question
TranscriptPairSwapped(response) ==
    << [speaker |-> "candidate", message |-> response.answer,
        timestamp |-> response.timestamp],
       [speaker |-> "ai", message |-> response.question,
        timestamp |-> response.timestamp - QuestionLeadMs] >>

\* lines 153-164: one ai entry and one candidate entry per response
TranscriptPair(response) ==
    << [speaker |-> "ai", message |-> response.question,
        timestamp |-> response.timestamp - QuestionLeadMs],
       [speaker |-> "candidate", message |-> response.answer,
        timestamp |-> response.timestamp] >>

\* lines 152-164: responses.flatMap
RECURSIVE TranscriptOf(_)
TranscriptOf(responses) ==
    IF responses = <<>> THEN <<>>
    ELSE TranscriptPair(Head(responses)) \o TranscriptOf(Tail(responses))

BuildTranscript(sid) ==
    IF sid = 0 THEN <<>>
    ELSE TranscriptOf(sessions[sid].sessionData.responses)

\* lines 140-177: look up interview and active session, build the transcript,
\* ask for the final evaluation
EndRequest(P, id) ==
    LET sid == getSessionByInterviewId(id)
    IN /\ Waiting(P)
       /\ IF getInterview(id) = Null
            THEN /\ resp' = Response("end", StatusNotFound, id, 0, Undefined,
                                     FALSE, 0, Null, Null)
                 /\ UNCHANGED inflight
            ELSE /\ inflight' = Await(
                        [Request("end", "final", id, sid) EXCEPT
                            !.startTime = interviews[id].startTime,
                            !.transcript = BuildTranscript(sid)])
                 /\ UNCHANGED resp
       /\ UNCHANGED <<storeVars, now, wsVars, hookVars>>

\* an end request sent by anything but the modelled browser component
EndRecv(P, id) == EndRequest(P, id) /\ UNCHANGED <<client, hookVars>>

\* lines 183-184
Duration(startTime) ==
    IF startTime # Null THEN (now - startTime[1]) \div MsPerSecond
    ELSE DefaultDuration

\* lines 179-198: the evaluation arrived; complete the interview, deactivate
\* the session the handler found
EndOk(r, score) ==
    /\ interviews' = updateInterview(r.id,
           [status |-> "completed", endTime |-> Some(now),
            duration |-> Some(Duration(r.startTime)), score |-> Some(score),
            transcript |-> Some(r.transcript),
            evaluation |-> Some([overallScore |-> score])])
    /\ sessions' = IF r.sid # 0 THEN updateSession(sessions, r.sid, [isActive |-> FALSE])
                   ELSE sessions
    /\ resp' = Response("end", StatusOk, r.id, r.sid, Undefined, FALSE, 0, Null,
                        [overallScore |-> score])

\* lines 199-202: generateFinalEvaluation threw
EndFail(r) ==
    /\ resp' = Response("end", StatusError, r.id, r.sid, Undefined, TRUE, 0, Null, Null)
    /\ UNCHANGED <<interviews, sessions>>

EndDone(P, r, ok, score) ==
    /\ r \in Pending("end", "final")
    /\ inflight' = Settle(r)
    /\ IF ok THEN EndOk(r, score) ELSE EndFail(r)
    /\ UNCHANGED <<currentInterviewId, currentSessionId, now, wsVars, client, hookVars>>

----------------------------------------------------------------------------
(* client: InterviewSession.handleEndInterview, useVapi.endCall,             *)
(* useInterview.endInterview                                                  *)

\* The component shows the session view of interview client.id; pc is the
\* position of handleEndInterview (idle, endCall, endInterview).  held and auto
\* record the state in which the end began: the number of responses of the
\* interview's active session, and whether the last respond reported
\* isComplete (InterviewSession.tsx 513-515) rather than the button.
HeldResponses(id) ==
    LET sid == getSessionByInterviewId(id)
    IN IF sid = 0 THEN 0 ELSE Len(sessions[sid].sessionData.responses)

ReportedComplete ==
    resp.kind = "respond" /\ resp.status = StatusOk /\ resp.body.isComplete

ClientIdle == client.view = "session" /\ client.pc = "idle"

\* the HTTP response the client waits for has arrived
Answered == inflight = EmptyBag /\ resp.kind = "end" /\ resp.id = client.id

\* InterviewSession.tsx 479-481, useInterview.ts 226-237: endCall throws when
\* the socket is not open (caught at 484, nothing sent), else POST .../end
ClientEndCall(P, id, wsOpen) ==
    /\ ClientIdle \/ (client.pc = "complete" /\ id = client.id)
    /\ IF wsOpen
         THEN /\ EndRequest(P, id)
              /\ client' = [client EXCEPT !.pc = "endCall", !.id = id,
                                          !.held = HeldResponses(id),
                                          !.auto = ReportedComplete]
         ELSE /\ client' = [client EXCEPT !.id = id, !.pc = "idle",
                                          !.isSubmitting = FALSE]
              /\ UNCHANGED <<storeVars, inflight, resp, now, wsVars, hookVars>>

\* useInterview.ts 239-256 and 43-48, InterviewSession.tsx 482: the first end
\* was answered; if it was not ok endCall throws, else the end-interview
\* message goes out on the socket (the server only logs it) and
\* endInterview.mutateAsync sends POST .../end again
ClientEndInterview(P) ==
    /\ client.pc = "endCall" /\ Answered
    /\ IF resp.status = StatusOk
         THEN /\ EndRequest(P, client.id)
              /\ client' = [client EXCEPT !.pc = "endInterview"]
         ELSE /\ client' = [client EXCEPT !.pc = "idle", !.isSubmitting = FALSE]
              /\ UNCHANGED <<storeVars, inflight, resp, now, wsVars, hookVars>>

\* InterviewSession.tsx 482-486: the second end was answered; onInterviewEnded
\* returns to the setup view unless the request failed
ClientEnded ==
    /\ client.pc = "endInterview" /\ Answered
    /\ client' = IF resp.status = StatusOk
                   THEN [client EXCEPT !.pc = "idle", !.view = "setup",
                                       !.isSubmitting = FALSE]
                   ELSE [client EXCEPT !.pc = "idle", !.isSubmitting = FALSE]
    /\ UNCHANGED <<storeVars, inflight, resp, now, wsVars, hookVars>>

----------------------------------------------------------------------------
(* GET /api/interviews/:id/session *)

\* routes.ts lines 206-217: the interview's active session, or 404
SessionRequest(P, id) ==
    LET sid == getSessionByInterviewId(id)
    IN /\ Waiting(P)
       /\ resp' = IF sid = 0
                    THEN Response("session", StatusNotFound, id, 0, Undefined,
                                  FALSE, 0, Null, Null)
                    ELSE Response("session", StatusOk, id, sid, Undefined,
                                  FALSE, 0, Null, sessions[sid])
       /\ UNCHANGED <<storeVars, inflight, now, wsVars, hookVars>>

\* a session fetch by anything but the modelled browser component
GetSession(P, id) == SessionRequest(P, id) /\ UNCHANGED <<client, hookVars>>

----------------------------------------------------------------------------
(* client: InterviewSession answer box, handleSubmitResponse                 *)

\* what the answer box can hold
Texts == {"", " ", "a1"}

\* String.prototype.trim on the texts above
Trim(text) ==
    CASE text = "" -> ""
      [] text = " " -> ""
      [] text = "a1" -> "a1"

\* InterviewSession.tsx 715-752 and 755-775: the submit button is rendered in
\* text mode, and in voice mode only beside a speech transcript
SubmitRendered == ~client.useVoiceMode \/ client.speechTranscript # ""

\* mutant: the button's disabled attribute leaves isSubmitting out
SubmitDisabledBlankOnly == Trim(client.currentAnswer) = ""

\* lines 734 and 759: disabled={!currentAnswer.trim() || isSubmitting}
SubmitDisabled == Trim(client.currentAnswer) = "" \/ client.isSubmitting

SubmitAvailable == SubmitRendered /\ ~SubmitDisabled

\* the respond request of handleSubmitResponse has been answered
RespondAnswered ==
    /\ Pending("respond", "eval") \cup Pending("respond", "next") = {}
    /\ resp.kind = "respond"

\* useInterview.ts 14-17 and InterviewSession.tsx 346, 578: the session query
\* fetches GET .../session; the component shows the fetched session's
\* currentQuestion, and keeps what it had when the fetch fails.  Nothing in the
\* component refetches after a respond: the query runs when the query client
\* decides (mount, focus), which is any time here.
ClientFetchSession(P, id) ==
    /\ client.view = "session"
    /\ client.pc = "idle" \/ (client.pc = "respond" /\ ~RespondAnswered)
    /\ SessionRequest(P, id)
    /\ client' = [client EXCEPT !.shown =
                     IF resp'.status = StatusOk
                       THEN resp'.body.sessionData.currentQuestion
                       ELSE @]

\* lines 699-712 and 725-731: typing in the answer box, disabled={isSubmitting}
ClientType(text) ==
    /\ client.view = "session"
    /\ ~client.isSubmitting
    /\ text # client.currentAnswer
    /\ client' = [client EXCEPT !.currentAnswer = text]
    /\ UNCHANGED <<storeVars, inflight, resp, now, wsVars, hookVars>>

\* lines 533-541 and 473-477: the mode button flips useVoiceMode; the effect
\* copies a speech transcript into the answer box in voice mode.  Nothing in
\* the component starts the recognizer, so the transcript stays empty.
ClientToggleMode ==
    /\ client.view = "session"
    /\ client' = [client EXCEPT
                     !.useVoiceMode = ~@,
                     !.currentAnswer =
                         IF client.speechTranscript # "" /\ ~client.useVoiceMode
                           THEN client.speechTranscript ELSE @]
    /\ UNCHANGED <<storeVars, inflight, resp, now, wsVars, hookVars>>

\* lines 489-497: a click on the submit button; a blank answer returns, else
\* isSubmitting is set and the answer is posted.  question is the current
\* question of the session the handler's render had fetched (line 501).
\* pc is one handler's position: a click while handleEndInterview runs is left
\* out.
ClientSubmit(P, id) ==
    /\ client.view = "session" /\ client.pc \in {"idle", "respond"}
    /\ SubmitAvailable
    /\ Trim(client.currentAnswer) # ""
    /\ RespondRequest(P, id, client.currentAnswer)
    /\ client' = [client EXCEPT
                     !.pc = "respond", !.id = id, !.isSubmitting = TRUE,
                     !.sent = Some([question |-> client.shown,
                                    answer |-> client.currentAnswer])]

\* lines 499-520: the respond request was answered.  On success the entry is
\* added to responseHistory and the answer box and transcript are cleared;
\* when the answer reports isComplete handleEndInterview runs before the
\* finally block.  Any other answer ends in catch.  finally clears
\* isSubmitting.
ClientSubmitDone ==
    /\ client.pc = "respond" /\ RespondAnswered
    /\ client' =
         IF resp.status = StatusOk
           THEN [client EXCEPT
                    !.responseHistory =
                        Append(@, [question |-> client.sent[1].question,
                                   answer |-> client.sent[1].answer,
                                   score |-> resp.body.evaluation]),
                    !.currentAnswer = "",
                    !.speechTranscript = "",
                    !.sent = Null,
                    !.pc = IF resp.body.isComplete THEN "complete" ELSE "idle",
                    !.isSubmitting = resp.body.isComplete]
           ELSE [client EXCEPT !.pc = "idle", !.sent = Null,
                               !.isSubmitting = FALSE]
    /\ UNCHANGED <<storeVars, inflight, resp, now, wsVars, hookVars>>

----------------------------------------------------------------------------
(* client: useSpeech *)

\* Text is a sequence of characters.  A result event is the part of
\* event.results from event.resultIndex on: a sequence of results, each the
\* transcript of its first alternative and its isFinal flag.
Space == <<" ">>
Segments == {<<"a">>, <<" ", "b">>}
Results == [transcript : Segments, isFinal : BOOLEAN]
ResultEvents ==
    {<<r>> : r \in Results} \cup {<<r1, r2>> : r1 \in Results, r2 \in Results}

\* String.prototype.trim
RECURSIVE TrimStart(_)
TrimStart(text) ==
    IF text # <<>> /\ Head(text) = " " THEN TrimStart(Tail(text)) ELSE text

RECURSIVE TrimEnd(_)
TrimEnd(text) ==
    IF text # <<>> /\ text[Len(text)] = " "
      THEN TrimEnd(SubSeq(text, 1, Len(text) - 1)) ELSE text

TrimText(text) == TrimEnd(TrimStart(text))

\* mutant: a final segment is added without the separating space
AddFinalUnspaced(final, transcript) == final \o transcript

\* useSpeech.ts 72: finalTranscriptValue += transcript + ' '
AddFinal(final, transcript) == final \o transcript \o Space

\* lines 66-76: the loop over the event's results
RECURSIVE OnResult(_, _, _)
OnResult(final, interim, event) ==
    IF event = <<>>
      THEN [final |-> final, interim |-> interim]
      ELSE IF Head(event).isFinal
             THEN OnResult(AddFinal(final, Head(event).transcript), interim,
                           Tail(event))
             ELSE OnResult(final, interim \o Head(event).transcript, Tail(event))

FinalsOf(event) == SelectSeq(event, LAMBDA r : r.isFinal)
InterimsOf(event) == SelectSeq(event, LAMBDA r : ~r.isFinal)

\* the recognizer is started: start() was called and no end or error event
\* has fired since
Started == speech.phase \in {"starting", "active", "stopping"}

\* lines 105-113: unless isListening, clear the transcripts and the error and
\* call recognition.start(), which throws InvalidStateError on a started
\* recognizer (part_001 364-369 catches it and sets the error instead)
StartListening ==
    /\ speech' =
         IF speech.isListening
           THEN speech
           ELSE [speech EXCEPT
                    !.finalTranscriptRef = <<>>, !.transcript = <<>>,
                    !.interimTranscript = <<>>, !.error = Null,
                    !.finals = <<>>, !.interims = <<>>,
                    !.threw = Started,
                    !.phase = IF Started THEN @ ELSE "starting"]
    /\ UNCHANGED <<storeVars, inflight, resp, now, wsVars, client, synth>>

\* lines 115-119: recognition.stop() while isListening
StopListening ==
    /\ speech' = IF speech.isListening /\ speech.phase = "active"
                   THEN [speech EXCEPT !.phase = "stopping"]
                   ELSE speech
    /\ UNCHANGED <<storeVars, inflight, resp, now, wsVars, client, synth>>

\* lines 121-125
ResetTranscript ==
    /\ speech' = [speech EXCEPT
                     !.finalTranscriptRef = <<>>, !.transcript = <<>>,
                     !.interimTranscript = <<>>,
                     !.finals = <<>>, !.interims = <<>>]
    /\ UNCHANGED <<storeVars, inflight, resp, now, wsVars, client, synth>>

\* lines 83-86: the recognizer's start event
RecStart ==
    /\ speech.phase = "starting"
    /\ speech' = [speech EXCEPT !.phase = "active", !.isListening = TRUE,
                                !.error = Null]
    /\ UNCHANGED <<storeVars, inflight, resp, now, wsVars, client, synth>>

\* lines 65-81: a result event of the listening recognizer.  finals and
\* interims keep the segments themselves: the final ones since the
\* transcripts were cleared, the non-final ones of this event.
RecResult(P, event) ==
    /\ speech.phase \in {"active", "stopping"}
    /\ Len(speech.finals) + Len(FinalsOf(event)) <= P.maxFinals
    /\ LET value == OnResult(speech.finalTranscriptRef, <<>>, event)
       IN speech' = [speech EXCEPT
                        !.finalTranscriptRef = value.final,
                        !.transcript = TrimText(value.final),
                        !.interimTranscript = value.interim,
                        !.finals = @ \o FinalsOf(event),
                        !.interims = InterimsOf(event)]
    /\ UNCHANGED <<storeVars, inflight, resp, now, wsVars, client, synth>>

\* lines 92-95: the recognizer's error event; its end event follows
RecError(code) ==
    /\ Started
    /\ speech' = [speech EXCEPT !.phase = "errored", !.isListening = FALSE,
                                !.error = Some(code)]
    /\ UNCHANGED <<storeVars, inflight, resp, now, wsVars, client, synth>>

\* lines 88-90: the recognizer's end event
RecEnd ==
    /\ speech.phase \in {"active", "stopping", "errored"}
    /\ speech' = [speech EXCEPT !.phase = "inactive", !.isListening = FALSE]
    /\ UNCHANGED <<storeVars, inflight, resp, now, wsVars, client, synth>>

----------------------------------------------------------------------------
(* client: useSpeechSynthesis (part_002) *)

\* synth.voices: speechSynthesis.getVoices() is not empty.  synth.queue: the
\* calls whose utterances the browser holds, the first being spoken once
\* synth.started.  synth.cancelled: the calls of utterances that cancel()
\* removed and whose error event has not fired yet.  A call keeps whether its
\* voiceschanged listener is registered and its timer pending, how many
\* utterances it handed to speechSynthesis.speak, how often its resolve or
\* reject ran, and its promise.
Call(accepted, waiting) ==
    [accepted |-> accepted, listener |-> waiting, timer |-> waiting,
     utterances |-> 0, settled |-> IF accepted THEN 0 ELSE 1,
     promise |-> IF accepted THEN "pending" ELSE "rejected"]

\* speechSynthesis.speaking
Speaking(sy) == sy.queue # <<>> /\ sy.started

\* speechSynthesis.cancel(): the queue is emptied, every removed utterance
\* gets an error event
Cancel(sy) ==
    [sy EXCEPT !.queue = <<>>, !.started = FALSE, !.cancelled = @ \o sy.queue]

\* part_002 159-189: build the utterance, cancel what is being spoken, hand
\* the utterance over
speakWithVoices(sy, i) ==
    LET quiet == IF Speaking(sy) THEN Cancel(sy) ELSE sy
    IN [quiet EXCEPT !.queue = Append(@, i), !.calls[i].utterances = @ + 1]

\* lines 196-199: the call's voiceschanged listener
voicesChanged(sy, i) ==
    speakWithVoices([sy EXCEPT !.calls[i].listener = FALSE], i)

\* the listeners of the calls from i on, in the order they were registered
RECURSIVE Dispatch(_, _)
Dispatch(sy, i) ==
    IF i > Len(sy.calls) THEN sy
    ELSE IF sy.calls[i].listener THEN Dispatch(voicesChanged(sy, i), i + 1)
    ELSE Dispatch(sy, i + 1)

\* a resolve or reject call of the promise of call i
Settled(sy, i, outcome) ==
    [sy EXCEPT !.calls[i].settled = @ + 1,
               !.calls[i].promise = IF @ = "pending" THEN outcome ELSE @]

\* lines 147-214: speak(text)
Speak(P, text, isSupported) ==
    /\ Len(synth.calls) < P.maxCalls
    /\ LET i == Len(synth.calls) + 1
       IN synth' =
            IF ~isSupported \/ text = ""
              THEN [synth EXCEPT !.calls = Append(@, Call(FALSE, FALSE))]
              ELSE LET quiet == Cancel(synth)
                   IN IF synth.voices
                        THEN speakWithVoices(
                                 [quiet EXCEPT !.calls = Append(@, Call(TRUE, FALSE))],
                                 i)
                        ELSE [quiet EXCEPT !.calls = Append(@, Call(TRUE, TRUE))]
    /\ UNCHANGED <<storeVars, inflight, resp, now, wsVars, client, speech>>

\* the browser's voice list has loaded: the voiceschanged event
VoicesChanged ==
    /\ ~synth.voices
    /\ synth' = Dispatch([synth EXCEPT !.voices = TRUE], 1)
    /\ UNCHANGED <<storeVars, inflight, resp, now, wsVars, client, speech>>

\* lines 203-206: the 1000 ms fallback timer of call i
TimerFires(i) ==
    /\ synth.calls[i].timer
    /\ synth' = speakWithVoices(
                    [synth EXCEPT !.calls[i].timer = FALSE,
                                  !.calls[i].listener = FALSE], i)
    /\ UNCHANGED <<storeVars, inflight, resp, now, wsVars, client, speech>>

\* lines 166-169: the first utterance of the queue begins
UttStart ==
    /\ synth.queue # <<>> /\ ~synth.started
    /\ synth' = [synth EXCEPT !.started = TRUE]
    /\ UNCHANGED <<storeVars, inflight, resp, now, wsVars, client, speech>>

\* lines 171-181: the utterance being spoken ends, or fails
UttDone(outcome) ==
    /\ Speaking(synth)
    /\ synth' = Settled([synth EXCEPT !.queue = Tail(@), !.started = FALSE],
                        Head(synth.queue), outcome)
    /\ UNCHANGED <<storeVars, inflight, resp, now, wsVars, client, speech>>

\* lines 177-181: the error event of an utterance that cancel() removed
UttCancelled ==
    /\ synth.cancelled # <<>>
    /\ synth' = Settled([synth EXCEPT !.cancelled = Tail(@)],
                        Head(synth.cancelled), "rejected")
    /\ UNCHANGED <<storeVars, inflight, resp, now, wsVars, client, speech>>

----------------------------------------------------------------------------
(* the clock *)

\* Date.now() moves on between two steps
Tick(P) ==
    /\ now < P.maxTicks * P.tickMs
    /\ now' = now + P.tickMs
    /\ UNCHANGED <<storeVars, inflight, resp, wsVars, client, hookVars>>

----------------------------------------------------------------------------
(* GET /api/stats *)

\* Math.round(x) of the fraction num / den, den > 0
RoundDiv(num, den) == (2 * num + den) \div (2 * den)

\* mutant: the status test of the filter is dropped
ScoredAnyStatus == {i \in DOMAIN interviews : interviews[i].score # Null}

\* line 125
Scored == {i \in DOMAIN interviews :
             interviews[i].status = "completed" /\ interviews[i].score # Null}

\* storage.ts lines 117-137.  averageScore is a number with one decimal: the
\* model holds it in tenths, Math.round(averageScore * 10).
getInterviewStats ==
    LET ids == SetToSeq(DOMAIN interviews)
        completed == SetToSeq(Scored)
        sum == SumSeq([k \in 1..Len(completed) |-> interviews[completed[k]].score[1]])
    IN [totalInterviews |-> Len(ids),
        activeSessions |-> Cardinality({s \in DOMAIN sessions : sessions[s].isActive}),
        averageScore |-> IF Len(completed) > 0 THEN RoundDiv(sum, Len(completed)) ELSE 0,
        languagesUsed |-> Cardinality({interviews[ids[k]].language : k \in 1..Len(ids)})]

GetStats ==
    /\ resp' = Response("stats", StatusOk, 0, 0, Undefined, FALSE, 0, Null,
                        getInterviewStats)
    /\ UNCHANGED <<storeVars, inflight, now, wsVars, client, hookVars>>

----------------------------------------------------------------------------
(* server/services/vapi.ts: the WebSocket channel; POST /api/webhook/vapi *)

\* lines 60-83: a browser connected; register it and confirm
WsConnect(P) ==
    LET c == Cardinality(DOMAIN wsState) + 1
    IN /\ c <= P.maxConns
       /\ activeConnections' = activeConnections \cup {c}
       /\ wsState' = wsState @@ (c :> "open")
       /\ wsOut' = wsOut @@ (c :> <<"connection-established">>)
       /\ UNCHANGED <<storeVars, inflight, resp, now, wsLast, client, hookVars>>

\* lines 215-247: the handler chosen for a message; every one of them only logs
HandleWebSocketMessage(c, type) ==
    IF c \notin activeConnections \/ wsState[c] # "open" THEN "ignored"
    ELSE CASE type = "start-interview" -> "handleStartInterview"
           [] type = "end-interview" -> "handleEndInterview"
           [] type = "voice-input" -> "handleVoiceInput"
           [] OTHER -> "unknown"

\* mutant: voice input is answered on the socket
HandlerOutputEcho(handler) ==
    IF handler = "handleVoiceInput" THEN <<"transcript-update">> ELSE <<>>

\* lines 234-247: what a handler sends on the socket.  handleStartInterview,
\* handleEndInterview and handleVoiceInput only log.
HandlerOutput(handler) == <<>>

\* lines 64-71: a message arrived from the browser
WsMessage(c, type) ==
    LET handler == IF type = "#unparsable" THEN "parse-error"
                   ELSE HandleWebSocketMessage(c, type)
    IN /\ c \in DOMAIN wsState /\ wsState[c] # "closed"
       /\ wsLast' = [conn |-> c, type |-> type, handler |-> handler]
       /\ wsOut' = [wsOut EXCEPT ![c] = @ \o HandlerOutput(handler)]
       /\ UNCHANGED <<storeVars, inflight, resp, now, activeConnections, wsState, client, hookVars>>

\* the socket starts closing: readyState is no longer OPEN
WsClosing(c) ==
    /\ c \in DOMAIN wsState /\ wsState[c] = "open"
    /\ wsState' = [wsState EXCEPT ![c] = "closing"]
    /\ UNCHANGED <<storeVars, inflight, resp, now, activeConnections, wsOut, wsLast, client, hookVars>>

\* lines 73-75: the close event
WsClosed(c) ==
    /\ c \in DOMAIN wsState /\ wsState[c] = "closing"
    /\ wsState' = [wsState EXCEPT ![c] = "closed"]
    /\ activeConnections' = activeConnections \ {c}
    /\ UNCHANGED <<storeVars, inflight, resp, now, wsOut, wsLast, client, hookVars>>

\* mutant: readyState is not tested before sending
BroadcastAll(message) ==
    /\ wsOut' = [c \in DOMAIN wsOut |->
                   IF c \in activeConnections
                     THEN Append(wsOut[c], message) ELSE wsOut[c]]
    /\ activeConnections' = activeConnections

\* lines 204-213: send to every open connection, forget the others
Broadcast(message) ==
    /\ wsOut' = [c \in DOMAIN wsOut |->
                   IF c \in activeConnections /\ wsState[c] = "open"
                     THEN Append(wsOut[c], message) ELSE wsOut[c]]
    /\ activeConnections' = {c \in activeConnections : wsState[c] = "open"}

\* routes.ts lines 292-323
Webhook(P, type) ==
    /\ \A c \in DOMAIN wsOut : Len(wsOut[c]) <= P.maxRelays
    /\ IF type = "transcript" THEN Broadcast("transcript-update")
                              ELSE UNCHANGED <<wsOut, activeConnections>>
    /\ resp' = Response("webhook", StatusOk, 0, 0, type, FALSE, 0, Null,
                        [success |-> TRUE])
    /\ UNCHANGED <<storeVars, inflight, now, wsState, wsLast, client, hookVars>>

----------------------------------------------------------------------------
(* Inputs *)


Body(name, language, type, level, status) ==
    [candidateName |-> name, language |-> language, interviewType |-> type,
     experienceLevel |-> level, status |-> status]

GoodBodies(languages, statuses) ==
    {Body("Asha", l, "Product Knowledge Test", "fresher", st) :
        l \in languages, st \in statuses}

BadBodies ==
    {Body(Undefined, "hi-IN", "Product Knowledge Test", "fresher", Undefined),
     Body("Asha", Undefined, "Product Knowledge Test", "fresher", Undefined),
     Body("Asha", "hi-IN", Undefined, "fresher", Undefined),
     Body("Asha", "hi-IN", "Product Knowledge Test", Undefined, Undefined),
     Body("Asha", NonString, "Product Knowledge Test", "fresher", Undefined),
     Body(NonString, "hi-IN", "Product Knowledge Test", "fresher", "completed"),
     Body("Asha", "hi-IN", "Product Knowledge Test", "fresher", NonString)}

WsMessageTypes == {"start-interview", "end-interview", "voice-input", "other",
                   "#unparsable"}
WebhookTypes == {"transcript", "function-call", "end-of-call-report", "other"}

----------------------------------------------------------------------------
(* Specifications *)

Init ==
    /\ interviews = <<>>
    /\ sessions = <<>>
    /\ currentInterviewId = 1
    /\ currentSessionId = 1
    /\ inflight = EmptyBag
    /\ resp = NoResponse
    /\ now = 0
    /\ activeConnections = {}
    /\ wsState = <<>>
    /\ wsOut = <<>>
    /\ wsLast = [conn |-> 0, type |-> "none", handler |-> "none"]
    /\ client = [view |-> "session", pc |-> "idle", id |-> 0, held |-> 0,
                 auto |-> FALSE, currentAnswer |-> "", isSubmitting |-> FALSE,
                 useVoiceMode |-> TRUE, speechTranscript |-> "",
                 shown |-> EmptyQuestion, responseHistory |-> <<>>,
                 sent |-> Null]
    /\ speech = [isListening |-> FALSE, transcript |-> <<>>,
                 interimTranscript |-> <<>>, error |-> Null,
                 finalTranscriptRef |-> <<>>, phase |-> "inactive",
                 threw |-> FALSE, finals |-> <<>>, interims |-> <<>>]
    /\ synth = [voices |-> FALSE, calls |-> <<>>, queue |-> <<>>,
                started |-> FALSE, cancelled |-> <<>>]

\* One interview, one request at a time: any sequence of create, start,
\* respond and end requests, each of which may fail in the external model.
Api == [maxInterviews |-> 1, maxInFlight |-> 1,
        maxSessions |-> MaxSessions, maxResponses |-> MaxResponses,
        bodies |-> GoodBodies({"hi-IN"}, {Undefined}),
        answers |-> {"a1"}, scores |-> {4}, finals |-> {72}]

Next ==
    \/ \E body \in Api.bodies : CreateInterview(Api, body)
    \/ \E id \in 1..Api.maxInterviews : StartRecv(Api, id)
    \/ \E r \in BagToSet(inflight), ok \in BOOLEAN : StartDone(Api, r, ok)
    \/ \E id \in 1..Api.maxInterviews, a \in Api.answers : RespondRecv(Api, id, a)
    \/ \E r \in BagToSet(inflight), ok \in BOOLEAN, sc \in Api.scores :
           RespondEval(Api, r, ok, sc)
    \/ \E r \in BagToSet(inflight), ok \in BOOLEAN : RespondNext(Api, r, ok)
    \/ \E id \in 1..Api.maxInterviews : EndRecv(Api, id)
    \/ \E r \in BagToSet(inflight), ok \in BOOLEAN, sc \in Api.finals :
           EndDone(Api, r, ok, sc)

Spec == Init /\ [][Next]_vars

\* One interview and one session, overlapping requests: a handler that waits
\* for the external model lets other requests in.
Overlap == [maxInterviews |-> 1, maxInFlight |-> MaxInFlight,
            maxSessions |-> 1, maxResponses |-> OverlapResponses,
            bodies |-> GoodBodies({"hi-IN"}, {Undefined}),
            answers |-> {"a1", "a2"}, scores |-> {4}, finals |-> {72}]

NextOverlap ==
    \/ \E body \in Overlap.bodies : CreateInterview(Overlap, body)
    \/ \E id \in 1..Overlap.maxInterviews : StartRecv(Overlap, id)
    \/ \E r \in BagToSet(inflight), ok \in BOOLEAN : StartDone(Overlap, r, ok)
    \/ \E id \in 1..Overlap.maxInterviews, a \in Overlap.answers :
           RespondRecv(Overlap, id, a)
    \/ \E r \in BagToSet(inflight), ok \in BOOLEAN, sc \in Overlap.scores :
           RespondEval(Overlap, r, ok, sc)
    \/ \E r \in BagToSet(inflight), ok \in BOOLEAN : RespondNext(Overlap, r, ok)
    \/ \E id \in 1..Overlap.maxInterviews : EndRecv(Overlap, id)
    \/ \E r \in BagToSet(inflight), ok \in BOOLEAN, sc \in Overlap.finals :
           EndDone(Overlap, r, ok, sc)

SpecOverlap == Init /\ [][NextOverlap]_vars

\* Several interviews, created, started and ended one request at a time,
\* with external calls that fail.
Store == [maxInterviews |-> StoreInterviews, maxInFlight |-> 1,
          maxSessions |-> StoreSessions,
          bodies |-> GoodBodies({"hi-IN"}, {Undefined}),
          finals |-> {72}]

NextStore ==
    \/ \E body \in Store.bodies : CreateInterview(Store, body)
    \/ \E id \in 1..(Store.maxInterviews + 1) : StartRecv(Store, id)
    \/ \E r \in BagToSet(inflight), ok \in BOOLEAN : StartDone(Store, r, ok)
    \/ \E id \in 1..(Store.maxInterviews + 1) : EndRecv(Store, id)
    \/ \E r \in BagToSet(inflight), ok \in BOOLEAN, sc \in Store.finals :
           EndDone(Store, r, ok, sc)

SpecStore == Init /\ [][NextStore]_vars

\* Interviews in two languages and with two final scores, started and ended
\* one request at a time, and the statistics read in between.
Stats == [maxInterviews |-> StatsInterviews, maxInFlight |-> 1,
          maxSessions |-> StatsSessions,
          bodies |-> GoodBodies({"hi-IN"}, {Undefined})
                       \cup GoodBodies({"ta-IN"}, {"completed"}),
          finals |-> {72, 85}]

NextStats ==
    \/ \E body \in Stats.bodies : CreateInterview(Stats, body)
    \/ \E id \in 1..Stats.maxInterviews : StartRecv(Stats, id)
    \/ \E r \in BagToSet(inflight) : StartDone(Stats, r, TRUE)
    \/ \E id \in 1..Stats.maxInterviews : EndRecv(Stats, id)
    \/ \E r \in BagToSet(inflight), sc \in Stats.finals : EndDone(Stats, r, TRUE, sc)
    \/ GetStats

SpecStats == Init /\ [][NextStats]_vars

\* Well-formed and malformed request bodies, one request at a time, with an
\* external model that never fails.
Input == [maxInterviews |-> 1, maxInFlight |-> 1,
          maxSessions |-> 1, maxResponses |-> InputResponses,
          bodies |-> GoodBodies({"hi-IN"}, {Undefined, "completed"}) \cup BadBodies,
          answers |-> {"a1", Undefined, NonString}, scores |-> {4}]

NextInput ==
    \/ \E body \in Input.bodies : CreateInterview(Input, body)
    \/ \E id \in 1..Input.maxInterviews : StartRecv(Input, id)
    \/ \E r \in BagToSet(inflight) : StartDone(Input, r, TRUE)
    \/ \E id \in 1..Input.maxInterviews, a \in Input.answers :
           RespondRecv(Input, id, a)
    \/ \E r \in BagToSet(inflight), sc \in Input.scores : RespondEval(Input, r, TRUE, sc)
    \/ \E r \in BagToSet(inflight) : RespondNext(Input, r, TRUE)

SpecInput == Init /\ [][NextInput]_vars

\* One interview answered past the question count, one request at a time,
\* with an external model that never fails.
Loop == [maxInterviews |-> 1, maxInFlight |-> 1,
         maxSessions |-> 1, maxResponses |-> MaxQuestions + LoopSlack,
         bodies |-> GoodBodies({"hi-IN"}, {Undefined}),
         answers |-> {"a1"}, scores |-> {4}, finals |-> {72}]

NextLoop ==
    \/ \E body \in Loop.bodies : CreateInterview(Loop, body)
    \/ \E id \in 1..Loop.maxInterviews : StartRecv(Loop, id)
    \/ \E r \in BagToSet(inflight) : StartDone(Loop, r, TRUE)
    \/ \E id \in 1..Loop.maxInterviews, a \in Loop.answers : RespondRecv(Loop, id, a)
    \/ \E r \in BagToSet(inflight), sc \in Loop.scores : RespondEval(Loop, r, TRUE, sc)
    \/ \E r \in BagToSet(inflight) : RespondNext(Loop, r, TRUE)
    \/ \E id \in 1..Loop.maxInterviews : EndRecv(Loop, id)
    \/ \E r \in BagToSet(inflight), sc \in Loop.finals : EndDone(Loop, r, TRUE, sc)

SpecLoop == Init /\ [][NextLoop]_vars

\* The WebSocket channel and the webhook beside an interview that is created
\* and started.
Relay == [maxInterviews |-> 1, maxInFlight |-> 1, maxSessions |-> 1,
          maxConns |-> MaxConns, maxRelays |-> MaxRelays,
          bodies |-> GoodBodies({"hi-IN"}, {Undefined})]

NextRelay ==
    \/ \E body \in Relay.bodies : CreateInterview(Relay, body)
    \/ \E id \in 1..Relay.maxInterviews : StartRecv(Relay, id)
    \/ \E r \in BagToSet(inflight), ok \in BOOLEAN : StartDone(Relay, r, ok)
    \/ WsConnect(Relay)
    \/ \E c \in DOMAIN wsState, type \in WsMessageTypes : WsMessage(c, type)
    \/ \E c \in DOMAIN wsState : WsClosing(c)
    \/ \E c \in DOMAIN wsState : WsClosed(c)
    \/ \E type \in WebhookTypes : Webhook(Relay, type)

SpecRelay == Init /\ [][NextRelay]_vars

\* One interview started and ended more than once, one request at a time,
\* with an external model that never fails, and its session fetched in
\* between.
Session == [maxInterviews |-> 1, maxInFlight |-> 1,
            maxSessions |-> SessionSessions, maxResponses |-> SessionResponses,
            bodies |-> GoodBodies({"hi-IN"}, {Undefined}),
            answers |-> {"a1"}, scores |-> {4}, finals |-> {72}]

NextSession ==
    \/ \E body \in Session.bodies : CreateInterview(Session, body)
    \/ \E id \in 1..Session.maxInterviews : StartRecv(Session, id)
    \/ \E r \in BagToSet(inflight) : StartDone(Session, r, TRUE)
    \/ \E id \in 1..Session.maxInterviews, a \in Session.answers :
           RespondRecv(Session, id, a)
    \/ \E r \in BagToSet(inflight), sc \in Session.scores :
           RespondEval(Session, r, TRUE, sc)
    \/ \E r \in BagToSet(inflight) : RespondNext(Session, r, TRUE)
    \/ \E id \in 1..Session.maxInterviews : EndRecv(Session, id)
    \/ \E r \in BagToSet(inflight), sc \in Session.finals :
           EndDone(Session, r, TRUE, sc)
    \/ \E id \in 1..Session.maxInterviews : GetSession(Session, id)

SpecSession == Init /\ [][NextSession]_vars

\* One browser: it creates and starts an interview, answers up to
\* MaxQuestions questions and ends the interview from the session view; the
\* final evaluation may fail.
Client == [maxInterviews |-> 1, maxInFlight |-> 1,
           maxSessions |-> ClientSessions, maxResponses |-> MaxQuestions,
           bodies |-> GoodBodies({"hi-IN"}, {Undefined}),
           answers |-> {"a1"}, scores |-> {4}, finals |-> {72}]

NextClient ==
    \/ ClientIdle /\ \E body \in Client.bodies : CreateInterview(Client, body)
    \/ ClientIdle /\ \E id \in 1..Client.maxInterviews : StartRecv(Client, id)
    \/ \E r \in BagToSet(inflight) : StartDone(Client, r, TRUE)
    \/ ClientIdle /\ \E id \in 1..Client.maxInterviews, a \in Client.answers :
                        RespondRecv(Client, id, a)
    \/ \E r \in BagToSet(inflight), sc \in Client.scores :
           RespondEval(Client, r, TRUE, sc)
    \/ \E r \in BagToSet(inflight) : RespondNext(Client, r, TRUE)
    \/ \E id \in 1..Client.maxInterviews, wsOpen \in BOOLEAN :
           ClientEndCall(Client, id, wsOpen)
    \/ \E r \in BagToSet(inflight), ok \in BOOLEAN, sc \in Client.finals :
           EndDone(Client, r, ok, sc)
    \/ ClientEndInterview(Client)
    \/ ClientEnded

SpecClient == Init /\ [][NextClient]_vars

\* One browser in the session view of one interview: it fetches the session,
\* types, switches mode and submits a few answers; the external model may
\* fail on an answer.
Ui == [maxInterviews |-> 1, maxInFlight |-> UiInFlight,
       maxSessions |-> 1, maxResponses |-> UiResponses,
       bodies |-> GoodBodies({"hi-IN"}, {Undefined}),
       scores |-> {4}]

NextUi ==
    \/ ClientIdle /\ \E body \in Ui.bodies : CreateInterview(Ui, body)
    \/ ClientIdle /\ \E id \in 1..Ui.maxInterviews : StartRecv(Ui, id)
    \/ \E r \in BagToSet(inflight) : StartDone(Ui, r, TRUE)
    \/ \E id \in 1..Ui.maxInterviews : ClientFetchSession(Ui, id)
    \/ \E text \in Texts : ClientType(text)
    \/ ClientToggleMode
    \/ \E id \in 1..Ui.maxInterviews : ClientSubmit(Ui, id)
    \/ \E r \in BagToSet(inflight), ok \in BOOLEAN, sc \in Ui.scores :
           RespondEval(Ui, r, ok, sc)
    \/ \E r \in BagToSet(inflight), ok \in BOOLEAN : RespondNext(Ui, r, ok)
    \/ ClientSubmitDone

SpecUi == Init /\ [][NextUi]_vars

\* One browser answering an interview to its end: it types, switches mode and
\* submits until the server reports the interview complete, and ends it then
\* or before; the external model may fail on an answer.  The session query
\* stays unanswered.
Submit == [maxInterviews |-> 1, maxInFlight |-> SubmitInFlight,
           maxSessions |-> 1, maxResponses |-> MaxQuestions,
           bodies |-> GoodBodies({"hi-IN"}, {Undefined}),
           scores |-> {4}, finals |-> {72}]

NextSubmit ==
    \/ ClientIdle /\ \E body \in Submit.bodies : CreateInterview(Submit, body)
    \/ ClientIdle /\ \E id \in 1..Submit.maxInterviews : StartRecv(Submit, id)
    \/ \E r \in BagToSet(inflight) : StartDone(Submit, r, TRUE)
    \/ \E text \in Texts : ClientType(text)
    \/ ClientToggleMode
    \/ \E id \in 1..Submit.maxInterviews : ClientSubmit(Submit, id)
    \/ \E r \in BagToSet(inflight), ok \in BOOLEAN, sc \in Submit.scores :
           RespondEval(Submit, r, ok, sc)
    \/ \E r \in BagToSet(inflight), ok \in BOOLEAN : RespondNext(Submit, r, ok)
    \/ ClientSubmitDone
    \/ \E id \in 1..Submit.maxInterviews, wsOpen \in BOOLEAN :
           ClientEndCall(Submit, id, wsOpen)
    \/ \E r \in BagToSet(inflight), sc \in Submit.finals :
           EndDone(Submit, r, TRUE, sc)
    \/ ClientEndInterview(Submit)
    \/ ClientEnded

SpecSubmit == Init /\ [][NextSubmit]_vars

\* One useSpeech hook: any order of startListening, stopListening and
\* resetTranscript calls and of the recognizer's events.
Speech == [maxFinals |-> SpeechFinals, events |-> ResultEvents,
           errors |-> {"no-speech"}]

NextSpeech ==
    \/ StartListening
    \/ StopListening
    \/ ResetTranscript
    \/ RecStart
    \/ \E event \in Speech.events : RecResult(Speech, event)
    \/ \E code \in Speech.errors : RecError(code)
    \/ RecEnd

SpecSpeech == Init /\ [][NextSpeech]_vars

\* One useSpeech hook whose caller waits for the recognizer: startListening
\* is called only when the recognizer is not started.
NextDictation ==
    \/ ~Started /\ StartListening
    \/ StopListening
    \/ ResetTranscript
    \/ RecStart
    \/ \E event \in Speech.events : RecResult(Speech, event)
    \/ \E code \in Speech.errors : RecError(code)
    \/ RecEnd

SpecDictation == Init /\ [][NextDictation]_vars

\* One useSpeechSynthesis hook: a few speak calls, the voice list loading at
\* any time or never, every timer firing at any time.
Synth == [maxCalls |-> SynthCalls, texts |-> {"", "q"}]

NextSynth ==
    \/ \E text \in Synth.texts, isSupported \in BOOLEAN :
           Speak(Synth, text, isSupported)
    \/ VoicesChanged
    \/ \E i \in DOMAIN synth.calls : TimerFires(i)
    \/ UttStart
    \/ \E outcome \in {"resolved", "rejected"} : UttDone(outcome)
    \/ UttCancelled

SpecSynth == Init /\ [][NextSynth]_vars

\* One interview and one session, overlapping respond requests, with an
\* external model that never fails.
Race == [maxInterviews |-> 1, maxInFlight |-> RaceInFlight,
         maxSessions |-> 1, maxResponses |-> RaceResponses,
         bodies |-> GoodBodies({"hi-IN"}, {Undefined}),
         answers |-> {"a1", "a2"}, scores |-> {4}]

NextRace ==
    \/ \E body \in Race.bodies : CreateInterview(Race, body)
    \/ \E id \in 1..Race.maxInterviews : StartRecv(Race, id)
    \/ \E r \in BagToSet(inflight) : StartDone(Race, r, TRUE)
    \/ \E id \in 1..Race.maxInterviews, a \in Race.answers :
           RespondRecv(Race, id, a)
    \/ \E r \in BagToSet(inflight), sc \in Race.scores :
           RespondEval(Race, r, TRUE, sc)
    \/ \E r \in BagToSet(inflight) : RespondNext(Race, r, TRUE)

SpecRace == Init /\ [][NextRace]_vars

\* One interview and one session, one request at a time, with a clock that
\* moves and an external model that never fails.
Timed == [maxInterviews |-> 1, maxInFlight |-> 1,
          maxSessions |-> 1, maxResponses |-> TimedResponses,
          maxTicks |-> MaxTicks, tickMs |-> TickMs,
          bodies |-> GoodBodies({"hi-IN"}, {Undefined}),
          answers |-> {"a1", "a2"}, scores |-> {4}, finals |-> {72}]

NextTimed ==
    \/ \E body \in Timed.bodies : CreateInterview(Timed, body)
    \/ \E id \in 1..Timed.maxInterviews : StartRecv(Timed, id)
    \/ \E r \in BagToSet(inflight) : StartDone(Timed, r, TRUE)
    \/ \E id \in 1..Timed.maxInterviews, a \in Timed.answers :
           RespondRecv(Timed, id, a)
    \/ \E r \in BagToSet(inflight), sc \in Timed.scores :
           RespondEval(Timed, r, TRUE, sc)
    \/ \E r \in BagToSet(inflight) : RespondNext(Timed, r, TRUE)
    \/ \E id \in 1..Timed.maxInterviews : EndRecv(Timed, id)
    \/ \E r \in BagToSet(inflight), sc \in Timed.finals :
           EndDone(Timed, r, TRUE, sc)
    \/ Tick(Timed)

SpecTimed == Init /\ [][NextTimed]_vars

----------------------------------------------------------------------------
(* Claims *)

QuestionIndex(map, s) == map[s].sessionData.questionIndex
Responses(map, s) == map[s].sessionData.responses
Sent == resp' # resp

\* C1: over any sequence of create, start, respond and end requests, an
\* interview's status changes only from pending to active (by start) and from
\* active to completed (by end); no other status change ever occurs.
C1_StatusTransitions ==
    [][\A i \in DOMAIN interviews :
          interviews'[i].status # interviews[i].status =>
             \/ /\ interviews[i].status = "pending"
                /\ interviews'[i].status = "active"
                /\ resp'.kind = "start"
             \/ /\ interviews[i].status = "active"
                /\ interviews'[i].status = "completed"
                /\ resp'.kind = "end"]_vars

\* C2: start stores a session whose questionIndex is 1, every respond request
\* that is answered successfully raises the stored questionIndex of its
\* session by exactly 1, and no other request changes it.
C2_QuestionIndex ==
    [][/\ \A s \in DOMAIN sessions' \ DOMAIN sessions : QuestionIndex(sessions', s) = 1
       /\ \A s \in DOMAIN sessions :
             QuestionIndex(sessions', s) # QuestionIndex(sessions, s) =>
                QuestionIndex(sessions', s) = QuestionIndex(sessions, s) + 1
       /\ Sent /\ resp'.kind = "respond" /\ resp'.status = StatusOk => resp'.delta = 1
       /\ Sent /\ ~(resp'.kind = "respond" /\ resp'.status = StatusOk) => resp'.delta = 0
      ]_vars

\* C3: the question/answer loop stops at the question count of 10: no session
\* holds more than 10 recorded responses and no stored questionIndex exceeds 11.
C3_LoopStops ==
    \A s \in DOMAIN sessions :
        /\ Len(Responses(sessions, s)) <= MaxQuestions
        /\ QuestionIndex(sessions, s) <= MaxQuestions + 1

Malformed(body) ==
    \E f \in {"candidateName", "language", "interviewType", "experienceLevel"} :
        ~IsString(body[f])

\* C4: a create-interview body that lacks candidateName, language,
\* interviewType or experienceLevel (or gives a non-string value), and a
\* respond body that lacks a string answer, are both answered 400.  (A respond
\* request for an interview without an active session is left out: its 404
\* is not held against the claim.)
C4_MalformedRejected ==
    /\ resp.kind = "create" /\ Malformed(resp.input) => resp.status = StatusBadRequest
    /\ resp.kind = "respond" /\ ~IsString(resp.input) /\ resp.status # StatusNotFound
          => resp.status = StatusBadRequest


\* C5: whenever an external-model call (first or next question, answer
\* scoring, final evaluation) fails during a start, respond or end request,
\* that request is answered with status 500, never with a success, and every
\* handler that stops waiting has answered its request.
C5_FailureAnswered500 ==
    [][\A r \in BagToSet(inflight) :
          CopiesIn(r, inflight') < CopiesIn(r, inflight) =>
             \/ /\ r.pc = "eval"
                /\ \E n \in BagToSet(inflight') :
                      /\ n.pc = "next" /\ n.sid = r.sid /\ n.answer = r.answer
                      /\ CopiesIn(n, inflight') > CopiesIn(n, inflight)
                /\ UNCHANGED resp
             \/ /\ resp'.kind = r.kind /\ resp'.id = r.id
                /\ resp'.status \in {StatusOk, StatusError}
                /\ resp'.status = StatusError <=> resp'.failed]_vars

C5_Witness ==
    /\ resp.kind = "respond" /\ resp.failed /\ resp.status = StatusError
    /\ resp.delta = 1
    /\ BagCardinality(inflight) = 1


RECURSIVE SumScores(_)
SumScores(S) ==
    IF S = {} THEN 0
    ELSE LET i == CHOOSE x \in S : TRUE
         IN interviews[i].score[1] + SumScores(S \ {i})

\* C6: the statistics aggregate the store exactly: totalInterviews is the
\* number of stored interviews, activeSessions the number of sessions with
\* isActive true, languagesUsed the number of distinct languages, and
\* averageScore (held in tenths) the mean score of the completed interviews
\* with a score, divided by 10 and rounded to one decimal place, 0 when there
\* is none.
C6_StatsAggregate ==
    resp.kind = "stats" =>
        LET done == {i \in DOMAIN interviews :
                        interviews[i].status = "completed" /\ interviews[i].score # Null}
            n == Cardinality(done)
            total == SumScores(done)
            tenths == resp.body.averageScore
        IN /\ resp.body.totalInterviews = Cardinality(DOMAIN interviews)
           /\ resp.body.activeSessions
                = Cardinality({x \in DOMAIN sessions : sessions[x].isActive})
           /\ resp.body.languagesUsed
                = Cardinality({interviews[i].language : i \in DOMAIN interviews})
           /\ n = 0 => tenths = 0
           /\ n > 0 => 2 * total - n <= 2 * n * tenths /\ 2 * n * tenths <= 2 * total + n

C6_Witness ==
    /\ resp.kind = "stats"
    /\ resp.body.totalInterviews = 2 /\ resp.body.languagesUsed = 2
    /\ resp.body.activeSessions = 1
    /\ resp.body.averageScore = 79
    /\ \A i \in DOMAIN interviews : interviews[i].status = "completed"

\* C7: interview ids and session ids are auto-incrementing: each kind is
\* assigned from its own counter starting at 1, every create receives an id
\* greater than every id of that kind assigned before, and no two stored
\* records of a kind share an id, also when requests fail.
C7_IdsAutoIncrement ==
    /\ DOMAIN interviews = 1..(currentInterviewId - 1)
    /\ \A i \in DOMAIN interviews : interviews[i].id = i
    /\ DOMAIN sessions = 1..(currentSessionId - 1)
    /\ \A x \in DOMAIN sessions : sessions[x].id = x

C7_Witness ==
    /\ Cardinality(DOMAIN interviews) = 2
    /\ Cardinality(DOMAIN sessions) = 2
    /\ sessions[1].interviewId = sessions[2].interviewId
    /\ resp.kind = "end" /\ resp.failed

\* C8: each respond request that is answered successfully has appended
\* exactly one entry to the end of the session's responses, holding the
\* question that was the session's currentQuestion when the request was read,
\* the submitted answer and the score returned by the scoring call; entries
\* already in the list are never modified, reordered or removed.
C8_ResponseAppended ==
    [][/\ \A r \in BagToSet(inflight') :
             r.pc = "eval" /\ CopiesIn(r, inflight') > CopiesIn(r, inflight) =>
                r.question = sessions[r.sid].sessionData.currentQuestion
       /\ \A x \in DOMAIN sessions :
             LET old == Responses(sessions, x)
                 new == Responses(sessions', x)
             IN \/ new = old
                \/ \E r \in BagToSet(inflight) :
                      /\ r.pc = "eval" /\ r.sid = x
                      /\ CopiesIn(r, inflight') < CopiesIn(r, inflight)
                      /\ Len(new) = Len(old) + 1
                      /\ SubSeq(new, 1, Len(old)) = old
                      /\ new[Len(new)].question = r.question
                      /\ new[Len(new)].answer = r.answer
       /\ Sent /\ resp'.kind = "respond" /\ resp'.status = StatusOk =>
             LET list == Responses(sessions', resp'.sid)
                 mine == {k \in 1..Len(list) : list[k] = resp'.entry[1]}
             IN /\ mine # {}
                /\ resp'.entry[1].answer = resp'.input
                /\ resp'.entry[1].score = resp'.body.evaluation
      ]_vars

C8_Witness ==
    /\ resp.kind = "respond" /\ resp.status = StatusOk
    /\ \E x \in DOMAIN sessions :
          /\ Len(Responses(sessions, x)) = 2
          /\ Responses(sessions, x)[1].question = Responses(sessions, x)[2].question
          /\ Responses(sessions, x)[1].answer # Responses(sessions, x)[2].answer
          /\ resp.entry[1] = Responses(sessions, x)[1]

\* C9: the only messages the server ever sends on a WebSocket are the one
\* connection-established confirmation per connection and transcript-update
\* relays of webhook events; a message received from a browser changes no
\* stored interview or session and causes no outgoing message.
C9_RelayOnly ==
    [][/\ \A c \in DOMAIN wsOut' :
             IF c \notin DOMAIN wsOut THEN wsOut'[c] = <<"connection-established">>
             ELSE \/ wsOut'[c] = wsOut[c]
                  \/ /\ wsOut'[c] = Append(wsOut[c], "transcript-update")
                     /\ resp'.kind = "webhook" /\ resp'.input = "transcript"
       /\ wsLast' # wsLast => UNCHANGED <<storeVars, wsOut>>
      ]_vars

C9_Witness ==
    /\ wsLast.handler = "handleVoiceInput"
    /\ wsOut[wsLast.conn] = <<"connection-established", "transcript-update">>
    /\ DOMAIN sessions # {}

\* C10: the interview record is consistent with its status in every
\* reachable state: a pending interview has startTime, endTime, duration,
\* score, transcript and evaluation all null; an active interview has a
\* startTime and a null endTime; a completed interview has endTime, duration,
\* score, transcript and evaluation all set.
C10_Lifecycle ==
    \A i \in DOMAIN interviews :
        LET v == interviews[i]
        IN /\ v.status = "pending" =>
                 /\ v.startTime = Null /\ v.endTime = Null /\ v.duration = Null
                 /\ v.score = Null /\ v.transcript = Null /\ v.evaluation = Null
           /\ v.status = "active" => v.startTime # Null /\ v.endTime = Null
           /\ v.status = "completed" =>
                 /\ v.endTime # Null /\ v.duration # Null /\ v.score # Null
                 /\ v.transcript # Null /\ v.evaluation # Null

ActiveSessions(i) ==
    {x \in DOMAIN sessions : sessions[x].interviewId = i /\ sessions[x].isActive}

\* C11: in every reachable state each interview has at most one session with
\* isActive true.
C11_OneActiveSession ==
    \A i \in DOMAIN interviews : Cardinality(ActiveSessions(i)) <= 1

StartedLast == resp.kind = "start" /\ resp.status = StatusOk /\ inflight = EmptyBag

\* C12: after a start request for interview i succeeds, the session that
\* GET /api/interviews/i/session returns and that the next respond request
\* operates on is the session created by that start, with questionIndex 1, no
\* responses and the first question just generated.
C12_StartedSessionServed ==
    [][StartedLast =>
          /\ resp'.kind = "session" /\ resp'.id = resp.id =>
                /\ resp'.status = StatusOk
                /\ resp'.sid = resp.sid
                /\ resp'.body.sessionData = InitialSessionData(resp.body.firstQuestion)
          /\ resp'.kind = "respond" /\ resp'.id = resp.id =>
                resp'.status # StatusNotFound
          /\ \A r \in BagToSet(inflight') :
                r.kind = "respond" /\ r.id = resp.id =>
                   /\ r.sid = resp.sid
                   /\ r.question = resp.body.firstQuestion
                   /\ sessions[r.sid].sessionData
                        = InitialSessionData(resp.body.firstQuestion)
      ]_vars

\* C13: once an end request for an interview has succeeded, every later
\* respond request and every later session fetch for that interview is
\* answered 404 and records nothing, until the interview is started again.
C13_EndedSessionGone ==
    [][\A i \in DOMAIN interviews :
          interviews[i].status = "completed" =>
             /\ \A r \in BagToSet(inflight') :
                   r.kind = "respond" /\ r.id = i =>
                      CopiesIn(r, inflight') <= CopiesIn(r, inflight)
             /\ Sent /\ resp'.kind \in {"respond", "session"} /\ resp'.id = i =>
                   resp'.status = StatusNotFound /\ UNCHANGED sessions
      ]_vars

\* C14: end is idempotent on a completed interview: an end request for an
\* interview whose status is already completed leaves its transcript, score,
\* evaluation, endTime and duration exactly as the first end stored them.
C14_EndIdempotent ==
    [][\A i \in DOMAIN interviews :
          interviews[i].status = "completed" /\ interviews'[i].status = "completed" =>
             /\ interviews'[i].transcript = interviews[i].transcript
             /\ interviews'[i].score = interviews[i].score
             /\ interviews'[i].evaluation = interviews[i].evaluation
             /\ interviews'[i].endTime = interviews[i].endTime
             /\ interviews'[i].duration = interviews[i].duration
      ]_vars

\* the session data a respond handler found when it read the request, while
\* no other request is served: a handler that waits for the evaluation has
\* changed nothing; one that waits for the next question kept the current
\* question, pushed one entry and counted it
Before(r) ==
    LET data == sessions[r.sid].sessionData
    IN IF r.pc = "eval" THEN data
       ELSE [currentQuestion |-> r.question,
             questionIndex |-> r.asked - 1,
             responses |-> SubSeq(data.responses, 1, Len(data.responses) - 1)]

\* C16: a respond request that is answered with status 500 leaves the stored
\* session exactly as it was before the request: responses, questionIndex and
\* currentQuestion are all unchanged, whichever external call failed.
C16_FailedRespondRollsBack ==
    [][\A r \in BagToSet(inflight) :
          /\ r.kind = "respond"
          /\ CopiesIn(r, inflight') < CopiesIn(r, inflight)
          /\ BagCardinality(inflight') < BagCardinality(inflight)
          /\ resp'.kind = "respond" /\ resp'.status = StatusError
          => sessions'[r.sid].sessionData = Before(r)
      ]_vars

\* C15: when the client ends an interview whose active session holds n
\* responses (End Interview button, or automatically after the response that
\* reports isComplete), the interview stored on the server at the moment the
\* client returns to the setup view has a transcript of exactly 2n entries.
C15_TranscriptKept ==
    client.view = "setup" =>
        /\ interviews[client.id].transcript # Null
        /\ Len(interviews[client.id].transcript[1]) = 2 * client.held

\* C17: a start or end request that is answered 404 (unknown interview) or
\* 500 (external call failed) leaves every stored interview and session
\* unchanged: no status change, no new session, no deactivation and no id
\* consumed, neither when the request is read nor when it is answered.
C17_FailedStartEndNoEffect ==
    [][/\ Sent /\ resp'.kind \in {"start", "end"}
             /\ resp'.status \in {StatusNotFound, StatusError} =>
             UNCHANGED storeVars
       /\ \A r \in BagToSet(inflight) :
             /\ r.kind \in {"start", "end"}
             /\ CopiesIn(r, inflight') < CopiesIn(r, inflight)
             /\ resp'.status = StatusError
             => resp'.kind = r.kind /\ UNCHANGED storeVars
       /\ \A r \in BagToSet(inflight') :
             /\ r.kind \in {"start", "end"}
             /\ CopiesIn(r, inflight') > CopiesIn(r, inflight)
             => UNCHANGED storeVars
      ]_vars

C17_Witness ==
    /\ resp.kind = "start" /\ resp.status = StatusError
    /\ interviews[resp.id].status = "completed"
    /\ currentSessionId = 2
    /\ \E i \in DOMAIN interviews : interviews[i].status = "pending"

\* C18: in every reachable state, under any interleaving of overlapping
\* start, respond and end requests and any pattern of external-call failures,
\* every stored session satisfies responses.length = questionIndex - 1; a
\* respond request that succeeds reports the index that counts every response
\* pushed so far, its own and those of overlapping requests (no lost update).
C18_NoLostUpdate ==
    /\ [](\A x \in DOMAIN sessions :
             Len(Responses(sessions, x)) = QuestionIndex(sessions, x) - 1)
    /\ [][Sent /\ resp'.kind = "respond" /\ resp'.status = StatusOk =>
             resp'.body.questionIndex = Len(Responses(sessions', resp'.sid)) + 1
         ]_vars

C18_Witness ==
    /\ resp.kind = "respond" /\ resp.status = StatusOk
    /\ resp.body.questionIndex = 3
    /\ Len(Responses(sessions, resp.sid)) = 2
    /\ resp.entry[1] = Responses(sessions, resp.sid)[2]
    /\ \E r \in BagToSet(inflight) :
          /\ r.kind = "respond" /\ r.pc = "next" /\ r.sid = resp.sid
          /\ r.entry[1] = Responses(sessions, resp.sid)[1]
          /\ r.question = resp.entry[1].question

\* the question generated for a session whose questionIndex is index: the
\* first question at start (routes.ts 75-82), else the one asked for after the
\* increment (262-272)
QuestionFor(index) ==
    IF index = 1 THEN GenerateQuestion(0)
    ELSE IF AskNext(index) THEN GenerateQuestion(index) ELSE EmptyQuestion

\* C19: under any interleaving of respond requests for one interview, each
\* generated question is recorded as answered at most once, and after all
\* requests finish the session's currentQuestion is the question that was
\* generated for its final questionIndex.
C19_QuestionsOnce ==
    \A x \in DOMAIN sessions :
        LET list == Responses(sessions, x)
        IN /\ \A j, k \in 1..Len(list) :
                 j # k => list[j].question # list[k].question
           /\ inflight = EmptyBag =>
                 sessions[x].sessionData.currentQuestion
                    = QuestionFor(QuestionIndex(sessions, x))

\* C20: once a session has been deactivated by end it never becomes active
\* again and its sessionData (responses, questionIndex, currentQuestion) never
\* changes again, also when respond requests were in flight at the end.
C20_DeactivatedFrozen ==
    [][\A x \in DOMAIN sessions :
          ~sessions[x].isActive =>
             /\ ~sessions'[x].isActive
             /\ sessions'[x].sessionData = sessions[x].sessionData
      ]_vars

\* C21: for an interview completed by an end request, under any interleaving
\* with respond requests for the same interview, the stored transcript has
\* exactly two entries for every response held by the session that the end
\* deactivated.
C21_TranscriptComplete ==
    [][\A r \in BagToSet(inflight) :
          /\ r.kind = "end" /\ r.sid # 0
          /\ CopiesIn(r, inflight') < CopiesIn(r, inflight)
          /\ resp'.kind = "end" /\ resp'.status = StatusOk
          /\ sessions[r.sid].isActive
          => Len(interviews'[r.id].transcript[1])
                = 2 * Len(Responses(sessions', r.sid))
      ]_vars

\* transcript is the flattening of responses list: entry 2k-1 is the
\* question of response k, said by the ai QuestionLeadMs before the response,
\* entry 2k its answer, said by the candidate at the response's timestamp
Flattens(transcript, list) ==
    /\ Len(transcript) = 2 * Len(list)
    /\ \A k \in 1..Len(list) :
          /\ transcript[2 * k - 1].speaker = "ai"
          /\ transcript[2 * k - 1].message = list[k].question
          /\ transcript[2 * k - 1].timestamp = list[k].timestamp - QuestionLeadMs
          /\ transcript[2 * k].speaker = "candidate"
          /\ transcript[2 * k].message = list[k].answer
          /\ transcript[2 * k].timestamp = list[k].timestamp

\* C22: the transcript that end builds from session responses r1..rn is
\* [ai: r1.question, candidate: r1.answer, ..., ai: rn.question, candidate:
\* rn.answer] in response order, each candidate entry with the response's
\* timestamp and each ai entry 30000 ms earlier; with no active session the
\* transcript is empty.  Stated for requests served one at a time: of the end
\* request in flight, and of the transcript stored when end was answered last.
C22_TranscriptShape ==
    /\ \A r \in BagToSet(inflight) :
          r.kind = "end" =>
             Flattens(r.transcript,
                      IF r.sid = 0 THEN <<>> ELSE Responses(sessions, r.sid))
    /\ resp.kind = "end" /\ resp.status = StatusOk /\ inflight = EmptyBag =>
          Flattens(interviews[resp.id].transcript[1],
                   IF resp.sid = 0 THEN <<>> ELSE Responses(sessions, resp.sid))

C22_Witness ==
    /\ resp.kind = "end" /\ resp.status = StatusOk /\ inflight = EmptyBag
    /\ resp.sid # 0
    /\ LET t == interviews[resp.id].transcript[1]
       IN /\ Len(t) = 4
          /\ t[2].timestamp = TickMs /\ t[4].timestamp = 2 * TickMs
          /\ t[1].timestamp = TickMs - QuestionLeadMs
          /\ t[2].message # t[4].message

Relayed(c) == wsOut'[c] = Append(wsOut[c], "transcript-update")

\* C24: a webhook event of type transcript is delivered as exactly one
\* transcript-update message to every WebSocket connection that is open at
\* that moment and to no connection that has closed; the connection registry
\* holds only connections that were opened and not yet closed or pruned (and
\* every open one); webhook events of any other type send nothing, and every
\* webhook request is answered with success.
C24_RelayToOpen ==
    /\ [](/\ activeConnections \subseteq
               {c \in DOMAIN wsState : wsState[c] # "closed"}
          /\ \A c \in DOMAIN wsState : wsState[c] = "open" => c \in activeConnections)
    /\ [][/\ (\E c \in DOMAIN wsOut : wsOut'[c] # wsOut[c]) =>
                /\ resp'.kind = "webhook" /\ resp'.input = "transcript"
                /\ \A c \in DOMAIN wsOut :
                      IF wsState[c] = "open" THEN Relayed(c)
                      ELSE wsOut'[c] = wsOut[c]
          /\ Sent /\ resp'.kind = "webhook" =>
                /\ resp'.status = StatusOk /\ resp'.body.success
                /\ DOMAIN wsOut' = DOMAIN wsOut
                /\ \A c \in DOMAIN wsOut :
                      IF resp'.input = "transcript" /\ wsState[c] = "open"
                        THEN Relayed(c) ELSE wsOut'[c] = wsOut[c]
                /\ activeConnections'
                     = IF resp'.input = "transcript"
                         THEN {c \in activeConnections : wsState[c] = "open"}
                         ELSE activeConnections
         ]_vars

C24_Witness ==
    /\ resp.kind = "webhook" /\ resp.input = "transcript"
    /\ \E c, d \in DOMAIN wsState :
          /\ wsState[c] = "open" /\ c \in activeConnections
          /\ wsOut[c] = <<"connection-established", "transcript-update">>
          /\ wsState[d] = "closing" /\ d \notin activeConnections
          /\ wsOut[d] = <<"connection-established">>

\* C25: for every answer submitted through handleSubmitResponse with the
\* session loaded, the entry the client adds to responseHistory holds the
\* question and answer of the response the server recorded for it, and the
\* question the client displays afterwards is the nextQuestion the server
\* returned.
C25_ClientFollowsServer ==
    [][/\ client'.responseHistory # client.responseHistory
       /\ client.sent[1].question # EmptyQuestion
       => LET entry == client'.responseHistory[Len(client'.responseHistory)]
          IN /\ entry.question = resp.entry[1].question
             /\ entry.answer = resp.entry[1].answer
             /\ client'.shown = resp.body.nextQuestion]_vars

\* C26: a respond request sent by handleSubmitResponse never carries a blank
\* answer and is never sent while isSubmitting is true; isSubmitting is true
\* while the request is unsettled, and false again once the handler is done,
\* whether the request succeeded or failed.
C26_SubmitGuarded ==
    /\ [](/\ (client.pc = "respond" \/ Pending("respond", "eval") # {}
               \/ Pending("respond", "next") # {}) => client.isSubmitting
          /\ client.pc = "idle" => ~client.isSubmitting)
    /\ [][/\ client'.pc = "respond" /\ client'.sent # client.sent
             => /\ ~client.isSubmitting /\ client'.isSubmitting
                /\ Trim(client'.sent[1].answer) # ""
          /\ \A r \in BagToSet(inflight') :
                r.kind = "respond" /\ CopiesIn(r, inflight') > CopiesIn(r, inflight)
                /\ r.pc = "eval"
                => /\ Trim(r.answer) # ""
                   /\ ~client.isSubmitting /\ client'.isSubmitting
                   /\ CopiesIn(r, inflight') = 1
                   /\ Pending("respond", "eval") \cup Pending("respond", "next") = {}
          /\ client.pc = "respond" /\ client'.pc # "respond"
             => client'.isSubmitting = (resp.status = StatusOk /\ resp.body.isComplete)
         ]_vars

\* a failed respond has settled after a successful one, and isSubmitting is
\* false again
C26_Witness ==
    /\ client.pc = "idle" /\ ~client.isSubmitting
    /\ resp.kind = "respond" /\ resp.status = StatusError
    /\ Len(client.responseHistory) = 1
    /\ client.currentAnswer = "a1"

\* C27: in the session view, in voice mode and in text mode, whenever the
\* answer box holds non-blank text and no submission is in flight, a submit
\* button is rendered and enabled.
C27_SubmitControl ==
    /\ client.view = "session"
    /\ Trim(client.currentAnswer) # ""
    /\ ~client.isSubmitting
    => SubmitAvailable

\* C28: recognition.start() is never invoked on a started recognizer,
\* whatever the order of the startListening and stopListening calls and of
\* the recognizer's events, and isListening is true exactly between a start
\* event and the following end or error event.
C28_StartOnce ==
    /\ ~speech.threw
    /\ speech.isListening <=> speech.phase \in {"active", "stopping"}

RECURSIVE JoinSpace(_)
JoinSpace(results) ==
    IF results = <<>> THEN <<>>
    ELSE IF Len(results) = 1 THEN results[1].transcript
    ELSE results[1].transcript \o Space \o JoinSpace(Tail(results))

RECURSIVE Concat(_)
Concat(results) ==
    IF results = <<>> THEN <<>>
    ELSE results[1].transcript \o Concat(Tail(results))

\* C29 as stated: the transcript is the final segments received since the
\* last startListening or resetTranscript, in arrival order, joined by single
\* spaces, and interimTranscript is the concatenation of the non-final
\* segments of the latest result event.
C29_TranscriptJoined ==
    /\ speech.transcript = JoinSpace(speech.finals)
    /\ speech.interimTranscript = Concat(speech.interims)

\* C29, amended: the transcript is that space-joined text with the white space
\* at its two ends removed; resetTranscript and a startListening that starts
\* the recognizer leave both transcripts empty.
C29_TranscriptTrimmed ==
    /\ [](/\ speech.transcript = TrimText(JoinSpace(speech.finals))
          /\ speech.interimTranscript = Concat(speech.interims))
    /\ [][speech'.finals = <<>> /\ speech'.interims = <<>>
          /\ (speech.finals # <<>> \/ speech.interims # <<>>)
          => speech'.transcript = <<>> /\ speech'.interimTranscript = <<>>]_vars

\* two final segments, the first with a leading space, and an interim one
C29_Witness ==
    /\ Len(speech.finals) = 2
    /\ speech.finals[1].transcript = <<" ", "b">>
    /\ speech.transcript = <<"b", " ", "a">>
    /\ speech.interimTranscript = <<" ", "b">>

\* C30: every accepted speak call hands at most one utterance to the browser,
\* exactly one once its listener and its timer are done, and its resolve or
\* reject runs at most once; a speak call with unsupported synthesis or empty
\* text hands over none.
C30_OneUtterance ==
    \A i \in DOMAIN synth.calls :
        LET call == synth.calls[i]
        IN IF call.accepted
             THEN /\ call.utterances <= 1
                  /\ call.settled <= 1
                  /\ ~call.listener /\ ~call.timer => call.utterances = 1
             ELSE call.utterances = 0

====
